---- MODULE Spec2Model ----
(***************************************************************************)
(* Model of src/main.js: the photo gallery page.                           *)
(*                                                                         *)
(* The page is single-threaded: every event handler runs to completion,    *)
(* so each handler is one action.  The asynchronous parts are the metadata *)
(* fetch awaited by initHome and the image loads that showLightbox starts  *)
(* (their onload callbacks are separate actions).                          *)
(*                                                                         *)
(* Math.random() is an input: a shuffle consumes a tape of draws, each a    *)
(* multiple of 1/4 in [0,1), and the tapes are indexed by a seed.          *)
(* Styles (opacity, transitions, masonry spans), the reveal observer, the  *)
(* rail's own open state and scrollIntoView are left out: no handler reads *)
(* them back.                                                              *)
(***************************************************************************)
EXTENDS Integers, Sequences, FiniteSets, TLC

\* ---------------------------------------------------------------- bounds
MaxPhotos == 3      \* photos in the metadata feed of the full page model
MaxExtra == 2       \* the scroll model's feeds run from BATCH_SIZE - MaxExtra
                    \* to 2 * BATCH_SIZE + MaxExtra photos
MaxSeed == 1        \* the tapes of Math.random() draws are those of seeds 0..MaxSeed
MaxPending == 2     \* image loads in flight at once

\* ------------------------------------------------------- program constants
BATCH_SIZE == 12

\* ---------------------------------------------------------------- strings
\* JavaScript null / undefined (a missing field), kept apart from every string.
Null == "<null>"
Undefined == "<undefined>"

\* String.prototype.toLowerCase on the strings of the model.
toLowerCase(s) ==
  CASE s = "All" -> "all"
    [] s = "Nature" -> "nature"
    [] s = "City" -> "city"
    [] s = " City " -> " city "
    [] OTHER -> s

\* String.prototype.trim on the strings of the model.
trim(s) ==
  CASE s = " City " -> "City"
    [] s = " city " -> "city"
    [] s = " " -> ""
    [] OTHER -> s

\* x ?? y
Coalesce(x, y) == IF x = Null \/ x = Undefined THEN y ELSE x

\* ------------------------------------------------------------------ feed
\* The shapes a record of /data/photos.json takes: categories an array
\* (possibly holding nulls, blanks, mixed case), or a single category, or
\* neither; title or name or neither.
RawShapes ==
  << [isArray |-> TRUE,  categories |-> <<"Nature", " City ">>, category |-> Undefined,
      title |-> "t", name |-> Undefined, description |-> "d", blurb |-> Undefined, desc |-> Undefined, caption |-> Undefined],
     [isArray |-> FALSE, categories |-> <<>>, category |-> "nature",
      title |-> Undefined, name |-> "n", description |-> Undefined, blurb |-> Null, desc |-> Undefined, caption |-> "c"],
     [isArray |-> FALSE, categories |-> <<>>, category |-> Undefined,
      title |-> Null, name |-> Undefined, description |-> Undefined, blurb |-> Undefined, desc |-> Undefined, caption |-> Undefined],
     [isArray |-> TRUE,  categories |-> <<Null, " ", "All", "city">>, category |-> "Nature",
      title |-> "t", name |-> "n", description |-> Null, blurb |-> "b", desc |-> Undefined, caption |-> "c"],
     [isArray |-> FALSE, categories |-> <<>>, category |-> " city ",
      title |-> "t", name |-> Undefined, description |-> "d", blurb |-> Undefined, desc |-> Undefined, caption |-> Undefined],
     [isArray |-> TRUE,  categories |-> <<>>, category |-> "City",
      title |-> Undefined, name |-> Undefined, description |-> Undefined, blurb |-> Undefined, desc |-> "e", caption |-> Undefined] >>

\* Record k (1-based) of the feed: the shapes in turn; file names are distinct.
RawPhoto(k) ==
  LET s == RawShapes[((k - 1) % Len(RawShapes)) + 1]
  IN  [file |-> ToString(k), isArray |-> s.isArray, categories |-> s.categories,
       category |-> s.category, title |-> s.title, name |-> s.name,
       description |-> s.description, blurb |-> s.blurb, desc |-> s.desc,
       caption |-> s.caption]

RawFeed(n) == [k \in 1..n |-> RawPhoto(k)]

\* What loadPhotos can settle with: the fetch rejects, the response is not
\* ok, the body is not JSON, the JSON is no array, the array holds a null
\* record, or it is an array of records.
FetchOutcomes == {"reject", "notok", "badjson", "notarray", "nullrecord", "array"}

\* loadPhotos: throws unless the response is ok and its body parses.
loadPhotosThrows(outcome) == outcome \in {"reject", "notok", "badjson"}

\* cats.map(c => (c ?? '').toString().trim().toLowerCase()).filter(Boolean)
RECURSIVE normCats(_)
normCats(cats) ==
  IF cats = <<>> THEN <<>>
  ELSE LET c == toLowerCase(trim(Coalesce(Head(cats), "")))
       IN  IF c = "" THEN normCats(Tail(cats)) ELSE <<c>> \o normCats(Tail(cats))

\* The callback of raw.map: { ...p, _catNorm: norm }; of the fields of p the
\* record keeps those the page reads again.
normalizePhoto(p) ==
  LET cats == IF p.isArray THEN p.categories ELSE <<Coalesce(p.category, "")>>
  IN  [file |-> p.file, title |-> p.title, name |-> p.name,
       description |-> p.description, blurb |-> p.blurb, desc |-> p.desc,
       caption |-> p.caption, _catNorm |-> normCats(cats)]

\* ------------------------------------------------------------- helpers
Min(a, b) == IF a < b THEN a ELSE b

\* The tapes of Math.random() draws, by seed: draw number c (from 0) of
\* tape s is ((s * (c + 1) + c) % 4) / 4.
Tapes == 0..MaxSeed

\* Math.floor(Math.random() * (i + 1)) for draw number c of the tape.
randomIndex(tape, c, i) == (((tape * (c + 1) + c) % 4) * (i + 1)) \div 4

\* [arr[i], arr[j]] = [arr[j], arr[i]], on 0-based positions.
swap(arr, i, j) == [arr EXCEPT ![i + 1] = arr[j + 1], ![j + 1] = arr[i + 1]]

\* The loop of shuffle from position i down to 1, c draws already made.
RECURSIVE shuffleFrom(_, _, _, _)
shuffleFrom(arr, i, c, tape) ==
  IF i > 0
  THEN shuffleFrom(swap(arr, i, randomIndex(tape, c, i)), i - 1, c + 1, tape)
  ELSE arr

\* shuffle(arr): Fisher-Yates, in place, returns arr.
shuffle(arr, tape) == shuffleFrom(arr, Len(arr) - 1, 0, tape)

\* p.title ?? p.name ?? 'Untitled'
titleOf(p) == Coalesce(Coalesce(p.title, p.name), "Untitled")

\* p.description ?? p.blurb ?? p.desc ?? p.caption ?? ''
descOf(p) ==
  Coalesce(Coalesce(Coalesce(Coalesce(p.description, p.blurb), p.desc), p.caption), "")

\* cardTemplate: the card of photo p at position idxInFiltered (0-based);
\* bound counts the click listeners wired on its anchor.
cardTemplate(p, idxInFiltered) ==
  [idx |-> idxInFiltered, file |-> p.file, title |-> titleOf(p),
   sub |-> descOf(p), bound |-> 0]

\* --------------------------------------------------------------- state
VARIABLES
  phase,          \* initHome: "inert" (not the home page), "fetching" (at the
                  \* await), "failed" (returned from the catch), "ready"
  uncaught,       \* an error escaped initHome
  allPhotos,      \* the normalized records
  filteredPhotos, \* the shuffled records of the active category
  cursor, loading, done,
  grid,           \* #homeGrid: the fallback message or the cards
  activePill,     \* the pills carrying class 'active'
  lightbox,       \* the lightbox object; el: the DOM exists; imgEl, titleEl,
                  \* descEl: what the elements hold; elOpen: class 'open'
  body,           \* document.body: style.overflow and class 'lb-open'
  activeElement,  \* document.activeElement
  images,         \* sources of the temp images whose load is in flight
  keydown         \* keydown listeners the lightbox put on document

vars == <<phase, uncaught, allPhotos, filteredPhotos, cursor, loading, done, grid,
          activePill, lightbox, body, activeElement, images, keydown>>

\* The page as one value, so that a function of main.js is an operator from
\* page to page.
Page ==
  [phase |-> phase, uncaught |-> uncaught, allPhotos |-> allPhotos,
   filteredPhotos |-> filteredPhotos, cursor |-> cursor, loading |-> loading,
   done |-> done, grid |-> grid, activePill |-> activePill, lightbox |-> lightbox,
   body |-> body, activeElement |-> activeElement, images |-> images,
   keydown |-> keydown]

Becomes(pg) ==
  /\ phase' = pg.phase
  /\ uncaught' = pg.uncaught
  /\ allPhotos' = pg.allPhotos
  /\ filteredPhotos' = pg.filteredPhotos
  /\ cursor' = pg.cursor
  /\ loading' = pg.loading
  /\ done' = pg.done
  /\ grid' = pg.grid
  /\ activePill' = pg.activePill
  /\ lightbox' = pg.lightbox
  /\ body' = pg.body
  /\ activeElement' = pg.activeElement
  /\ images' = pg.images
  /\ keydown' = pg.keydown

\* The data-filter values of the pills, and of the rail's menu links.
PillFilters == {"All", "Nature", ""}
RailFilters == {"city", " City ", ""}

\* ------------------------------------------------------------ elements
\* The elements that can hold the focus: the body, the anchor of the card
\* with data-idx idx, the viewer's close button, and an anchor that
\* grid.innerHTML = '' has removed from the document.
BodyEl == [kind |-> "body", idx |-> -1]
CloseBtn == [kind |-> "lbClose", idx |-> -1]
NoEl == [kind |-> "null", idx |-> -1]
Anchor(i) == [kind |-> "anchor", idx |-> i]
Detached(e) == [kind |-> "detached", idx |-> e.idx]

\* e.focus(): moves the focus to e when e is focusable and in the document;
\* the body (no tabindex), a removed element and null (the ?. of
\* closeLightbox) leave it where it is.
focusOn(pg, e) ==
  IF e.kind \in {"anchor", "lbClose"}
  THEN [pg EXCEPT !.activeElement = e]
  ELSE pg

\* ------------------------------------------------------------- lightbox
\* Mutant of ensureLightboxDOM: without the early return, every open builds
\* the viewer again and adds a keydown listener.
ensureLightboxDOMEveryOpen(pg) ==
  [pg EXCEPT !.lightbox.el = TRUE, !.keydown = @ + 1]

\* ensureLightboxDOM: builds the viewer once and wires its listeners.
ensureLightboxDOM(pg) ==
  IF pg.lightbox.el THEN pg
  ELSE [pg EXCEPT !.lightbox.el = TRUE, !.keydown = @ + 1]

\* showLightbox(idx)
showLightbox(pg, idx) ==
  LET list == pg.lightbox.list
      n == Len(list)
  IN  IF n = 0 THEN pg
      ELSE LET i1 == IF idx < 0 THEN n - 1 ELSE idx
               i2 == IF i1 >= n THEN 0 ELSE i1
               p == list[i2 + 1]
           IN  [pg EXCEPT !.lightbox.index = i2,
                          !.lightbox.titleEl = titleOf(p),
                          !.lightbox.descEl = descOf(p),
                          !.lightbox.imgEl.alt = titleOf(p),
                          !.images = @ \cup {p.file}]

\* temp.onload of the image that showLightbox started for src.
imageOnload(pg, src) ==
  [pg EXCEPT !.lightbox.imgEl.src = src, !.images = @ \ {src}]

\* openLightboxFromIndex(idx, list)
openLightboxFromIndex(pg, idx, list) ==
  LET a == ensureLightboxDOM(pg)
      b == [a EXCEPT !.lightbox.list = list,
                     !.lightbox.lastFocus = a.activeElement,
                     !.body = [overflow |-> "hidden", lbOpen |-> TRUE],
                     !.lightbox.elOpen = TRUE,
                     !.lightbox.open = TRUE]
  IN  focusOn(showLightbox(b, idx), CloseBtn)

\* Mutant of closeLightbox: the scroll lock is not released.
closeLightboxKeepsScrollLock(pg) ==
  IF ~pg.lightbox.open THEN pg
  ELSE LET a == [pg EXCEPT !.lightbox.elOpen = FALSE,
                           !.lightbox.open = FALSE,
                           !.body.lbOpen = FALSE,
                           !.lightbox.imgEl.src = ""]
       IN  focusOn(a, a.lightbox.lastFocus)

\* closeLightbox()
closeLightbox(pg) ==
  IF ~pg.lightbox.open THEN pg
  ELSE LET a == [pg EXCEPT !.lightbox.elOpen = FALSE,
                           !.lightbox.open = FALSE,
                           !.body = [overflow |-> "", lbOpen |-> FALSE],
                           !.lightbox.imgEl.src = ""]
       IN  focusOn(a, a.lightbox.lastFocus)

\* A click on the anchor of a card: the click may move the focus to the
\* anchor, then the listener that wireNewCardsForLightbox bound runs.
anchorClick(pg, card, focuses) ==
  LET a == IF focuses THEN focusOn(pg, Anchor(card.idx)) ELSE pg
  IN  IF card.bound > 0
      THEN openLightboxFromIndex(a, card.idx, a.filteredPhotos)
      ELSE a

\* The click listeners of the next and previous buttons.
nextBtnClick(pg) == showLightbox(pg, pg.lightbox.index + 1)

prevBtnClick(pg) == showLightbox(pg, pg.lightbox.index - 1)

\* Mutant of onKeydown: the listener does not test lightbox.open.
onKeydownUnguarded(pg, key) ==
  LET a == IF key = "Escape" THEN closeLightbox(pg) ELSE pg
      b == IF key = "ArrowRight" THEN showLightbox(a, a.lightbox.index + 1) ELSE a
  IN  IF key = "ArrowLeft" THEN showLightbox(b, b.lightbox.index - 1) ELSE b

\* One run of the keydown listener of ensureLightboxDOM.
onKeydown(pg, key) ==
  IF ~pg.lightbox.open THEN pg
  ELSE LET a == IF key = "Escape" THEN closeLightbox(pg) ELSE pg
           b == IF key = "ArrowRight" THEN showLightbox(a, a.lightbox.index + 1) ELSE a
       IN  IF key = "ArrowLeft" THEN showLightbox(b, b.lightbox.index - 1) ELSE b

\* A keydown event on document: every listener installed runs, in order.
RECURSIVE dispatchKeydown(_, _, _)
dispatchKeydown(pg, key, k) ==
  IF k = 0 THEN pg ELSE dispatchKeydown(onKeydown(pg, key), key, k - 1)

\* ----------------------------------------------------------------- home
\* setActivePill(name): a pill is active iff its data-filter is name.
setActivePill(pg, name) ==
  [pg EXCEPT !.activePill = {b \in PillFilters : b = name}]

\* wireNewCardsForLightbox: a card not yet bound gets its click listener.
wireNewCardsForLightbox(cards) ==
  [i \in 1..Len(cards) |->
     IF cards[i].bound = 0 THEN [cards[i] EXCEPT !.bound = 1] ELSE cards[i]]

\* Mutant of renderNextBatch: the cursor advances by BATCH_SIZE, not by the
\* length of the slice.
renderNextBatchFullStep(pg) ==
  IF pg.loading \/ pg.done THEN pg
  ELSE LET slice == SubSeq(pg.filteredPhotos, pg.cursor + 1,
                           Min(pg.cursor + BATCH_SIZE, Len(pg.filteredPhotos)))
           html == [i \in 1..Len(slice) |-> cardTemplate(slice[i], pg.cursor + i - 1)]
       IN  IF Len(slice) = 0
           THEN [pg EXCEPT !.done = TRUE, !.loading = FALSE]
           ELSE [pg EXCEPT !.grid.cards = wireNewCardsForLightbox(@ \o html),
                           !.cursor = @ + BATCH_SIZE,
                           !.loading = FALSE]

\* Mutant of renderNextBatch: an empty slice does not set done.
renderNextBatchNeverDone(pg) ==
  IF pg.loading \/ pg.done THEN pg
  ELSE LET slice == SubSeq(pg.filteredPhotos, pg.cursor + 1,
                           Min(pg.cursor + BATCH_SIZE, Len(pg.filteredPhotos)))
           html == [i \in 1..Len(slice) |-> cardTemplate(slice[i], pg.cursor + i - 1)]
       IN  IF Len(slice) = 0
           THEN [pg EXCEPT !.loading = FALSE]
           ELSE [pg EXCEPT !.grid.cards = wireNewCardsForLightbox(@ \o html),
                           !.cursor = @ + Len(slice),
                           !.loading = FALSE]

\* Mutant of renderNextBatch: the cursor is not advanced.
renderNextBatchNoAdvance(pg) ==
  IF pg.loading \/ pg.done THEN pg
  ELSE LET slice == SubSeq(pg.filteredPhotos, pg.cursor + 1,
                           Min(pg.cursor + BATCH_SIZE, Len(pg.filteredPhotos)))
           html == [i \in 1..Len(slice) |-> cardTemplate(slice[i], pg.cursor + i - 1)]
       IN  IF Len(slice) = 0
           THEN [pg EXCEPT !.done = TRUE, !.loading = FALSE]
           ELSE [pg EXCEPT !.grid.cards = wireNewCardsForLightbox(@ \o html),
                           !.loading = FALSE]

\* Mutant of renderNextBatch: loading is not cleared after a batch.
renderNextBatchStaysLoading(pg) ==
  IF pg.loading \/ pg.done THEN pg
  ELSE LET slice == SubSeq(pg.filteredPhotos, pg.cursor + 1,
                           Min(pg.cursor + BATCH_SIZE, Len(pg.filteredPhotos)))
           html == [i \in 1..Len(slice) |-> cardTemplate(slice[i], pg.cursor + i - 1)]
       IN  IF Len(slice) = 0
           THEN [pg EXCEPT !.done = TRUE, !.loading = FALSE]
           ELSE [pg EXCEPT !.grid.cards = wireNewCardsForLightbox(@ \o html),
                           !.cursor = @ + Len(slice),
                           !.loading = TRUE]

\* Mutant of renderNextBatch: data-idx counts from the start of the batch.
renderNextBatchIdxInBatch(pg) ==
  IF pg.loading \/ pg.done THEN pg
  ELSE LET slice == SubSeq(pg.filteredPhotos, pg.cursor + 1,
                           Min(pg.cursor + BATCH_SIZE, Len(pg.filteredPhotos)))
           html == [i \in 1..Len(slice) |-> cardTemplate(slice[i], i - 1)]
       IN  IF Len(slice) = 0
           THEN [pg EXCEPT !.done = TRUE, !.loading = FALSE]
           ELSE [pg EXCEPT !.grid.cards = wireNewCardsForLightbox(@ \o html),
                           !.cursor = @ + Len(slice),
                           !.loading = FALSE]

\* Mutant of renderNextBatch: a slice shorter than a batch is taken for the
\* end of the list and not rendered.
renderNextBatchDoneEarly(pg) ==
  IF pg.loading \/ pg.done THEN pg
  ELSE LET slice == SubSeq(pg.filteredPhotos, pg.cursor + 1,
                           Min(pg.cursor + BATCH_SIZE, Len(pg.filteredPhotos)))
           html == [i \in 1..Len(slice) |-> cardTemplate(slice[i], pg.cursor + i - 1)]
       IN  IF Len(slice) < BATCH_SIZE
           THEN [pg EXCEPT !.done = TRUE, !.loading = FALSE]
           ELSE [pg EXCEPT !.grid.cards = wireNewCardsForLightbox(@ \o html),
                           !.cursor = @ + Len(slice),
                           !.loading = FALSE]

\* renderNextBatch(); slice, like the const it models, is evaluated once.
renderNextBatch(pg) ==
  IF pg.loading \/ pg.done THEN pg
  ELSE LET batchStart == pg.cursor
           append(slice) ==
             LET html == [i \in 1..Len(slice) |-> cardTemplate(slice[i], batchStart + i - 1)]
             IN  IF Len(slice) = 0
                 THEN [pg EXCEPT !.done = TRUE, !.loading = FALSE]
                 ELSE [pg EXCEPT !.grid.cards = wireNewCardsForLightbox(@ \o html),
                                 !.cursor = @ + Len(slice),
                                 !.loading = FALSE]
       IN  CHOOSE r \in {append(slice) :
                           slice \in {SubSeq(pg.filteredPhotos, pg.cursor + 1,
                                              Min(pg.cursor + BATCH_SIZE,
                                                  Len(pg.filteredPhotos)))}} : TRUE

\* grid.innerHTML = '': the cards leave the document; a focused anchor loses
\* the focus to the body, and a remembered anchor is no longer in the document.
clearGrid(pg) ==
  [pg EXCEPT !.grid = [fallback |-> FALSE, cards |-> <<>>],
             !.activeElement = IF @.kind = "anchor" THEN BodyEl ELSE @,
             !.lightbox.lastFocus = IF @.kind = "anchor" THEN Detached(@) ELSE @]

\* p._catNorm.includes(want)
includes(arr, x) == \E i \in 1..Len(arr) : arr[i] = x

\* Mutant of applyFilter: the name is compared as given, not lowercased.
applyFilterCaseSensitive(pg, name, tape) ==
  LET a == setActivePill(pg, name)
      want == name
      Keep(p) == includes(p._catNorm, want)
      sel == IF want = "all" \/ want = ""
             THEN a.allPhotos
             ELSE SelectSeq(a.allPhotos, Keep)
      shuffled == shuffle(sel, tape)
      b == [a EXCEPT !.filteredPhotos = shuffled, !.lightbox.list = shuffled]
      c == [clearGrid(b) EXCEPT !.cursor = 0, !.loading = FALSE, !.done = FALSE]
  IN  renderNextBatch(c)

\* Mutant of applyFilter: the done flag is not reset.
applyFilterKeepsDone(pg, name, tape) ==
  LET a == setActivePill(pg, name)
      want == toLowerCase(name)
      Keep(p) == includes(p._catNorm, want)
      sel == IF want = "all" \/ want = ""
             THEN a.allPhotos
             ELSE SelectSeq(a.allPhotos, Keep)
      shuffled == shuffle(sel, tape)
      b == [a EXCEPT !.filteredPhotos = shuffled, !.lightbox.list = shuffled]
      c == [clearGrid(b) EXCEPT !.cursor = 0, !.loading = FALSE]
  IN  renderNextBatch(c)

\* Mutant of applyFilter: 'all' shuffles allPhotos itself, not a copy.
applyFilterShufflesInPlace(pg, name, tape) ==
  LET a == setActivePill(pg, name)
      want == toLowerCase(name)
      Keep(p) == includes(p._catNorm, want)
      sel == IF want = "all" \/ want = ""
             THEN a.allPhotos
             ELSE SelectSeq(a.allPhotos, Keep)
      shuffled == shuffle(sel, tape)
      b == [a EXCEPT !.filteredPhotos = shuffled, !.lightbox.list = shuffled,
                     !.allPhotos = IF want = "all" \/ want = "" THEN shuffled ELSE @]
      c == [clearGrid(b) EXCEPT !.cursor = 0, !.loading = FALSE, !.done = FALSE]
  IN  renderNextBatch(c)

\* applyFilter(name), the shuffle drawing from tape.
applyFilter(pg, name, tape) ==
  LET a == setActivePill(pg, name)
      want == toLowerCase(name)
      Keep(p) == includes(p._catNorm, want)
      sel == IF want = "all" \/ want = ""
             THEN a.allPhotos
             ELSE SelectSeq(a.allPhotos, Keep)
      shuffled == shuffle(sel, tape)
      b == [a EXCEPT !.filteredPhotos = shuffled, !.lightbox.list = shuffled]
      c == [clearGrid(b) EXCEPT !.cursor = 0, !.loading = FALSE, !.done = FALSE]
  IN  renderNextBatch(c)

\* Mutant of loadAndNormalize: raw.map runs outside the try block, so only
\* the errors of loadPhotos reach the catch.
loadAndNormalizeMapOutsideTry(outcome, raw) ==
  IF loadPhotosThrows(outcome) \/ outcome \in {"notarray", "nullrecord"}
  THEN [threw |-> TRUE, caught |-> loadPhotosThrows(outcome), photos |-> <<>>]
  ELSE [threw |-> FALSE, caught |-> FALSE,
        photos |-> [k \in 1..Len(raw) |-> normalizePhoto(raw[k])]]

\* The try block of initHome: what loadPhotos and raw.map give for the
\* feed; threw: an exception reached the catch.
loadAndNormalize(outcome, raw) ==
  IF loadPhotosThrows(outcome) \/ outcome \in {"notarray", "nullrecord"}
  THEN [threw |-> TRUE, caught |-> TRUE, photos |-> <<>>]
  ELSE [threw |-> FALSE, caught |-> FALSE,
        photos |-> [k \in 1..Len(raw) |-> normalizePhoto(raw[k])]]

\* initHome from its await on: the catch shows the fallback and returns;
\* otherwise the listeners and the observer are installed and 'All' applied.
initHomeResume(pg, outcome, raw, tape) ==
  LET r == loadAndNormalize(outcome, raw)
  IN  IF r.threw
      THEN IF r.caught
           THEN [pg EXCEPT !.phase = "failed",
                           !.grid = [fallback |-> TRUE, cards |-> <<>>]]
           ELSE [pg EXCEPT !.phase = "failed", !.uncaught = TRUE]
      ELSE applyFilter([pg EXCEPT !.phase = "ready", !.allPhotos = r.photos],
                       "All", tape)

\* ----------------------------------------------------------------- Init
\* The page after the script has run to the await of initHome (or returned
\* from it on a page that is not the home page).
Init ==
  /\ phase \in {"fetching", "inert"}
  /\ uncaught = FALSE
  /\ allPhotos = <<>>
  /\ filteredPhotos = <<>>
  /\ cursor = 0
  /\ loading = FALSE
  /\ done = FALSE
  /\ grid = [fallback |-> FALSE, cards |-> <<>>]
  /\ activePill = {}
  /\ lightbox = [el |-> FALSE, open |-> FALSE, index |-> 0, list |-> <<>>,
                 lastFocus |-> NoEl, imgEl |-> [src |-> "", alt |-> ""],
                 titleEl |-> "", descEl |-> "", elOpen |-> FALSE]
  /\ body = [overflow |-> "", lbOpen |-> FALSE]
  /\ activeElement = BodyEl
  /\ images = {}
  /\ keydown = 0

\* -------------------------------------------------------------- actions
\* The fetch settles and initHome resumes, on a feed of at most MaxPhotos.
FetchSettles ==
  /\ phase = "fetching"
  /\ \E outcome \in FetchOutcomes, n \in 0..MaxPhotos, tape \in Tapes :
       \E r \in {initHomeResume(Page, outcome, RawFeed(n), tape)} : Becomes(r)

\* The same on a feed of about one batch to a little over two.
FetchSettlesLong ==
  /\ phase = "fetching"
  /\ \E outcome \in FetchOutcomes, n \in (BATCH_SIZE - MaxExtra)..(2 * BATCH_SIZE + MaxExtra),
        tape \in Tapes :
       \E r \in {initHomeResume(Page, outcome, RawFeed(n), tape)} : Becomes(r)

\* A click on a pill.  The listener exists once initHome has passed the try
\* block.
PillClick ==
  \E name \in PillFilters, tape \in Tapes :
    \E r \in {IF phase = "ready" THEN applyFilter(Page, name, tape) ELSE Page} : Becomes(r)

\* An 'apply-category' event (the rail dispatches it) with detail.cat = cat.
ApplyCategory ==
  \E cat \in RailFilters, tape \in Tapes :
    \E r \in {IF phase = "ready" /\ cat # "" THEN applyFilter(Page, cat, tape) ELSE Page} :
      Becomes(r)

\* The sentinel comes into view: the observer's callback.
SentinelIntersects ==
  \E r \in {IF phase = "ready" THEN renderNextBatch(Page) ELSE Page} : Becomes(r)

\* Whether showLightbox may start one more image load.
MayLoad(pg) == Cardinality(pg.images) <= MaxPending

\* A click on the anchor of card c of the grid; the click may move the focus
\* to the anchor.
CardClick ==
  \E c \in 1..Len(grid.cards), focuses \in BOOLEAN :
    \E r \in {anchorClick(Page, grid.cards[c], focuses)} : MayLoad(r) /\ Becomes(r)

\* Clicks on the viewer's buttons and backdrop, which show while the viewer
\* carries class 'open'.
NextClick ==
  /\ lightbox.elOpen
  /\ \E r \in {nextBtnClick(Page)} : MayLoad(r) /\ Becomes(r)

PrevClick ==
  /\ lightbox.elOpen
  /\ \E r \in {prevBtnClick(Page)} : MayLoad(r) /\ Becomes(r)

CloseClick ==
  /\ lightbox.elOpen
  /\ \E r \in {closeLightbox(Page)} : Becomes(r)

\* A keydown on document.
Keydown ==
  \E key \in {"Escape", "ArrowRight", "ArrowLeft"} :
    \E r \in {dispatchKeydown(Page, key, keydown)} : MayLoad(r) /\ Becomes(r)

\* An image load that showLightbox started completes, or fails.
ImageLoads == \E src \in images : \E r \in {imageOnload(Page, src)} : Becomes(r)

ImageFails == \E src \in images : \E r \in {[Page EXCEPT !.images = @ \ {src}]} : Becomes(r)

Next ==
  \/ FetchSettles
  \/ PillClick
  \/ ApplyCategory
  \/ SentinelIntersects
  \/ CardClick
  \/ NextClick
  \/ PrevClick
  \/ CloseClick
  \/ Keydown
  \/ ImageLoads
  \/ ImageFails

Spec == Init /\ [][Next]_vars

\* The grid alone, on feeds longer than one batch: filters and scrolling.
NextScroll ==
  \/ FetchSettlesLong
  \/ PillClick
  \/ ApplyCategory
  \/ SentinelIntersects

SpecScroll == Init /\ [][NextScroll]_vars

\* The grid when the filter is chosen first and kept while scrolling: no
\* renderNextBatch call of the observer has run since the last applyFilter.
\* applyFilter resets cursor, loading, done and the grid, so the states right
\* after the last change of filter are the same as without this restriction.
NotScrolledYet == cursor <= BATCH_SIZE /\ ~done

PillClickFirst == NotScrolledYet /\ PillClick

ApplyCategoryFirst == NotScrolledYet /\ ApplyCategory

NextScrollOn ==
  \/ FetchSettlesLong
  \/ PillClickFirst
  \/ ApplyCategoryFirst
  \/ SentinelIntersects

\* The observer's callback keeps running while the sentinel is in view.
SpecScrollOn == Init /\ [][NextScrollOn]_vars /\ WF_vars(SentinelIntersects)

\* The viewer alone, on the list that initHome's applyFilter('All') leaves:
\* cards, buttons, keys and image loads, without later changes of filter.
NextViewer ==
  \/ FetchSettles
  \/ SentinelIntersects
  \/ CardClick
  \/ NextClick
  \/ PrevClick
  \/ CloseClick
  \/ Keydown
  \/ ImageLoads
  \/ ImageFails

SpecViewer == Init /\ [][NextViewer]_vars

\* The viewer when every image load that showLightbox starts completes.
NextViewerLoaded ==
  \/ FetchSettles
  \/ SentinelIntersects
  \/ CardClick
  \/ NextClick
  \/ PrevClick
  \/ CloseClick
  \/ Keydown
  \/ ImageLoads

SpecViewerLoaded == Init /\ [][NextViewerLoaded]_vars

\* =============================================================== claims
Range(seq) == {seq[i] : i \in 1..Len(seq)}

\* The photos of allPhotos that a filter by name is to select.
ExpectedPhotos(name) ==
  LET want == toLowerCase(name)
  IN  IF want \in {"all", ""}
      THEN Range(allPhotos)
      ELSE {p \in Range(allPhotos) : want \in Range(p._catNorm)}

\* seq holds every element of S exactly once and nothing else.
ExactlyOnce(seq, S) == Range(seq) = S /\ Len(seq) = Cardinality(S)

\* Names applyFilter can be called with: those of the pills and the rail,
\* and the other spellings of the model's strings.
FilterNames ==
  PillFilters \cup (RailFilters \ {""}) \cup {"all", "nature", "City", " city "}

\* C1: after applyFilter(name), filteredPhotos holds exactly once each photo
\* of allPhotos whose _catNorm contains name lowercased, or every photo of
\* allPhotos when name lowercased is 'all' or empty, and no other photo.
\* Checked of the call in every state the page reaches, for every name and
\* tape, and of the list the page holds under the pill that is active.
C1_FilterSelectsCategory ==
  phase = "ready" =>
    /\ \A name \in FilterNames, tape \in Tapes :
         ExactlyOnce(applyFilter(Page, name, tape).filteredPhotos, ExpectedPhotos(name))
    /\ \A b \in activePill : ExactlyOnce(filteredPhotos, ExpectedPhotos(b))

\* A category filter has selected a proper, shuffled part of the feed.
C1_Witness ==
  /\ phase = "ready"
  /\ activePill = {"Nature"}
  /\ Len(filteredPhotos) \in 2..(Len(allPhotos) - 1)
  /\ filteredPhotos[1] # allPhotos[1]

\* C2: with the viewer open on a list of length n at a position i of it,
\* 'previous' (button or ArrowLeft) sets the index to n-1 from 0 and to i-1
\* otherwise, 'next' (button or ArrowRight) sets it to 0 from n-1 and to i+1
\* otherwise, however often the viewer was opened before.
C2_NavigationWraps ==
  LET n == Len(lightbox.list)
      i == lightbox.index
      prev == IF i = 0 THEN n - 1 ELSE i - 1
      next == IF i = n - 1 THEN 0 ELSE i + 1
  IN  (lightbox.open /\ n > 0 /\ i \in 0..(n - 1)) =>
        /\ prevBtnClick(Page).lightbox.index = prev
        /\ nextBtnClick(Page).lightbox.index = next
        /\ dispatchKeydown(Page, "ArrowLeft", keydown).lightbox.index = prev
        /\ dispatchKeydown(Page, "ArrowRight", keydown).lightbox.index = next

\* The viewer stands on the last of three photos, having shown the first.
C2_Witness ==
  /\ lightbox.open
  /\ Len(lightbox.list) = 3
  /\ lightbox.index = 2
  /\ lightbox.imgEl.src = lightbox.list[1].file
  /\ images = {lightbox.list[3].file}

\* C3: lightbox.index is a position of lightbox.list whenever the list is
\* not empty.
C3_IndexInList ==
  Len(lightbox.list) > 0 => lightbox.index \in 0..(Len(lightbox.list) - 1)

\* C4: 0 <= cursor <= filteredPhotos.length, and a renderNextBatch call the
\* guard does not block appends min(BATCH_SIZE, filteredPhotos.length -
\* cursor) cards and advances cursor by as much.
C4_BatchWithinRemainder ==
  /\ cursor \in 0..Len(filteredPhotos)
  /\ (phase = "ready" /\ ~loading /\ ~done) =>
       LET r == renderNextBatch(Page)
           k == Min(BATCH_SIZE, Len(filteredPhotos) - cursor)
       IN  /\ Len(r.grid.cards) = Len(grid.cards) + k
           /\ r.cursor = cursor + k

\* Two full batches are rendered and a shorter one remains.
C4_Witness ==
  /\ phase = "ready"
  /\ cursor = 2 * BATCH_SIZE
  /\ Len(filteredPhotos) \in (cursor + 1)..(cursor + BATCH_SIZE - 1)
  /\ ~done

\* C5 as claimed: whenever no batch is in progress and cursor =
\* filteredPhotos.length, done is true.
C5_DoneWhenExhausted ==
  (phase = "ready" /\ ~loading /\ cursor = Len(filteredPhotos)) => done

\* C5 as amended: whenever no batch is in progress and cursor =
\* filteredPhotos.length, done is true or the next renderNextBatch call sets
\* it, appending nothing and leaving cursor as it is.
C5_DoneOnNextCall ==
  (~loading /\ cursor = Len(filteredPhotos)) =>
    \/ done
    \/ LET r == renderNextBatch(Page)
       IN  r.done /\ ~r.loading /\ r.cursor = cursor /\ r.grid = grid

\* A list longer than one batch is rendered to its end and marked done.
C5_Witness ==
  /\ phase = "ready"
  /\ done
  /\ cursor = Len(filteredPhotos)
  /\ cursor > BATCH_SIZE

\* C6: once the metadata fetch has failed, no error has escaped initHome,
\* the grid is the fallback message, and cursor and filteredPhotos are
\* empty, whatever events follow (pill clicks, apply-category events and
\* sentinel triggers remain possible).
C6_FetchFailureFallback ==
  phase = "failed" =>
    /\ ~uncaught
    /\ grid = [fallback |-> TRUE, cards |-> <<>>]
    /\ cursor = 0
    /\ filteredPhotos = <<>>
    /\ ENABLED PillClick /\ ENABLED ApplyCategory /\ ENABLED SentinelIntersects

\* The fetch has failed and the fallback shows.
C6_Witness == phase = "failed" /\ grid.fallback

\* C7: the cards of the grid are filteredPhotos[0 .. cursor-1] in order,
\* their data-idx 0 .. cursor-1, and loading is false between handlers.
C7_GridIsRenderedPrefix ==
  /\ loading = FALSE
  /\ cursor <= Len(filteredPhotos)
  /\ Len(grid.cards) = cursor
  /\ \A i \in 1..Len(grid.cards) :
       /\ grid.cards[i].idx = i - 1
       /\ i <= Len(filteredPhotos)
       /\ grid.cards[i].file = filteredPhotos[i].file

\* After a change of filter, a second batch has been rendered.
C7_Witness ==
  /\ phase = "ready"
  /\ activePill = {""}
  /\ cursor = 2 * BATCH_SIZE
  /\ Len(filteredPhotos) > cursor

\* C8: while the viewer is closed its image source is empty.
C8_ImageClearedWhileClosed == ~lightbox.open => lightbox.imgEl.src = ""

\* C9: while the viewer stays open its list does not change.
C9_ListIsSnapshot ==
  [][(lightbox.open /\ lightbox'.open) => lightbox'.list = lightbox.list]_vars

\* C10: lightbox.open holds iff the body has overflow 'hidden' and class
\* 'lb-open' and the viewer element has class 'open'.
C10_ScrollLockFollowsOpen ==
  /\ lightbox.open <=> body.overflow = "hidden"
  /\ lightbox.open <=> body.lbOpen
  /\ lightbox.open <=> lightbox.elOpen

\* The viewer is closed after it was opened a second time while open.
C10_Witness ==
  /\ lightbox.el
  /\ ~lightbox.open
  /\ lightbox.lastFocus = CloseBtn
  /\ body.overflow = ""

\* C11: for every card of the grid with data-idx i, filteredPhotos[i] is the
\* photo the card shows, and a click on the card opens the viewer with
\* lightbox.index = i and lightbox.list[i] that photo, whether or not the
\* click moves the focus.
C11_CardOpensItsPhoto ==
  \A c \in 1..Len(grid.cards), focuses \in BOOLEAN :
    LET card == grid.cards[c]
        r == anchorClick(Page, card, focuses)
    IN  /\ card.idx + 1 \in 1..Len(filteredPhotos)
        /\ filteredPhotos[card.idx + 1].file = card.file
        /\ r.lightbox.open
        /\ r.lightbox.index = card.idx
        /\ r.lightbox.list[card.idx + 1].file = card.file
        /\ r.lightbox.titleEl = card.title
        /\ card.file \in r.images

\* After a change of filter and a second batch, the last card of the grid
\* opens the viewer on the last photo rendered.
C11_Witness ==
  /\ phase = "ready"
  /\ activePill = {}
  /\ cursor > BATCH_SIZE
  /\ anchorClick(Page, grid.cards[cursor], TRUE).lightbox.index = cursor - 1

\* The page with other values of the pagination state, as applyFilter may
\* find them.
PriorPaginations ==
  {[Page EXCEPT !.cursor = k, !.loading = l, !.done = d] :
     k \in {0, cursor, Len(filteredPhotos)}, l \in BOOLEAN, d \in BOOLEAN}

\* C12: right after applyFilter returns, whatever cursor, loading and done
\* were before, the grid holds the cards of the first min(BATCH_SIZE, n)
\* photos of the new filtered list in order and no other card, cursor is
\* min(BATCH_SIZE, n), loading is false, and done is true only if n = 0.
C12_FilterRestartsPagination ==
  phase = "ready" =>
    \A pg \in PriorPaginations, name \in FilterNames, tape \in Tapes :
      LET r == applyFilter(pg, name, tape)
          n == Len(r.filteredPhotos)
          k == Min(BATCH_SIZE, n)
      IN  /\ r.cursor = k
          /\ ~r.loading
          /\ r.done <=> (n = 0)
          /\ Len(r.grid.cards) = k
          /\ \A i \in 1..k :
               /\ r.grid.cards[i].file = r.filteredPhotos[i].file
               /\ r.grid.cards[i].idx = i - 1
               /\ r.grid.cards[i].bound = 1

\* A category filter has left a list longer than a batch with exactly its
\* first batch in the grid.
C12_Witness ==
  /\ phase = "ready"
  /\ activePill = {}
  /\ Len(filteredPhotos) > BATCH_SIZE
  /\ cursor = BATCH_SIZE
  /\ Len(grid.cards) = BATCH_SIZE
  /\ ~done

\* pg after k calls of renderNextBatch.
RECURSIVE renderTimes(_, _)
renderTimes(pg, k) == IF k = 0 THEN pg ELSE renderTimes(renderNextBatch(pg), k - 1)

\* The calls of renderNextBatch that the rest of the list needs: one for
\* each batch and one that finds the list exhausted.
CallsLeft ==
  IF done THEN 0
  ELSE (Len(filteredPhotos) - cursor + BATCH_SIZE - 1) \div BATCH_SIZE + 1

\* C13: when the filter is not changed again and the observer's callback
\* keeps running, the page comes to cursor = filteredPhotos.length with done
\* true, and the calls of renderNextBatch still needed in a state, one for
\* each batch left and one more, are enough for it: ceil(n/BATCH_SIZE) + 1
\* calls from cursor = 0, the one of applyFilter counted.
C13_ScrollCompletes ==
  /\ (phase = "ready") ~> (done /\ cursor = Len(filteredPhotos))
  /\ [](phase = "ready" =>
          LET r == renderTimes(Page, CallsLeft)
          IN  r.done /\ r.cursor = Len(filteredPhotos) /\ ~r.loading)

\* A list of more than two batches has been rendered to its end.
C13_Witness ==
  /\ phase = "ready"
  /\ done
  /\ cursor = Len(filteredPhotos)
  /\ cursor > 2 * BATCH_SIZE
  /\ Len(grid.cards) = cursor

\* C14: after opens of the viewer and a closeLightbox, the focus is on the
\* element that had it when the viewer went from closed to open, also when
\* openLightboxFromIndex ran again while the viewer was open. Stated of a
\* closed viewer and cards c1, c2: c1 is opened with the focus on its
\* anchor, then closed, or c2 is opened before the close.
C14_FocusReturnsToOpener ==
  (phase = "ready" /\ ~lightbox.open) =>
    \A c1 \in 1..Len(grid.cards), c2 \in 1..Len(grid.cards), focuses \in BOOLEAN :
      LET first == anchorClick(Page, grid.cards[c1], TRUE)
          again == anchorClick(first, grid.cards[c2], focuses)
      IN  /\ first.activeElement = CloseBtn
          /\ closeLightbox(first).activeElement = Anchor(grid.cards[c1].idx)
          /\ closeLightbox(again).activeElement = Anchor(grid.cards[c1].idx)

\* C15: once every image load that showLightbox started has completed, in
\* whatever order, the image of the open viewer shows the file of
\* lightbox.list[lightbox.index], also after next and previous actions taken
\* while earlier loads were pending.
C15_ImageFollowsIndex ==
  (lightbox.open /\ images = {} /\ Len(lightbox.list) > 0) =>
    lightbox.imgEl.src = lightbox.list[lightbox.index + 1].file

\* C16: in every state with done true, cursor is filteredPhotos.length, and
\* a renderNextBatch call changes nothing: not the grid, cursor, loading or
\* done, nor anything else of the page.
C16_DoneIsFinal ==
  done =>
    /\ cursor = Len(filteredPhotos)
    /\ Len(grid.cards) = cursor
    /\ renderNextBatch(Page) = Page

\* A list of exactly one batch is rendered and the call after it set done.
C16_Witness ==
  /\ phase = "ready"
  /\ done
  /\ Len(filteredPhotos) = BATCH_SIZE
  /\ Len(grid.cards) = BATCH_SIZE

\* C17: while the viewer is closed, a keydown of Escape, ArrowLeft or
\* ArrowRight and a closeLightbox call leave lightbox.open, index, list, the
\* image source, the scroll lock and the focus as they are, and with them the
\* rest of the page.
C17_ClosedViewerIgnoresKeys ==
  ~lightbox.open =>
    /\ \A key \in {"Escape", "ArrowRight", "ArrowLeft"} :
         LET r == dispatchKeydown(Page, key, keydown)
         IN  /\ r.lightbox = lightbox
             /\ r.body = body
             /\ r.activeElement = activeElement
             /\ r = Page
    /\ closeLightbox(Page) = Page

\* The viewer was opened, moved on and closed; its keydown listener is
\* installed and a late load has left an image in the closed viewer.
C17_Witness ==
  /\ ~lightbox.open
  /\ keydown = 1
  /\ lightbox.index > 0
  /\ lightbox.imgEl.src # ""
  /\ activeElement.kind = "anchor"

\* C18: after the metadata load allPhotos is the loaded list, element by
\* element and in the order of the feed, whatever filters, shuffles and
\* batch renders have run, and no applyFilter, renderNextBatch or viewer
\* operation changes it; applyFilter of 'all' then selects every photo of it.
C18_AllPhotosUnchanged ==
  phase = "ready" =>
    /\ allPhotos = [k \in 1..Len(allPhotos) |-> normalizePhoto(RawPhoto(k))]
    /\ \A name \in FilterNames, tape \in Tapes :
         applyFilter(Page, name, tape).allPhotos = allPhotos
    /\ \A tape \in Tapes :
         ExactlyOnce(applyFilter(Page, "all", tape).filteredPhotos, Range(allPhotos))
    /\ renderNextBatch(Page).allPhotos = allPhotos
    /\ \A c \in 1..Len(grid.cards) :
         LET o == anchorClick(Page, grid.cards[c], TRUE)
         IN  /\ o.allPhotos = allPhotos
             /\ nextBtnClick(o).allPhotos = allPhotos
             /\ closeLightbox(o).allPhotos = allPhotos

\* The whole feed was shuffled into another order and rendered to its end.
C18_Witness ==
  /\ phase = "ready"
  /\ activePill = {""}
  /\ Len(filteredPhotos) = Len(allPhotos)
  /\ filteredPhotos # allPhotos
  /\ lightbox.list = filteredPhotos
  /\ done

====
